---- MODULE Spec2Model ----
(***************************************************************************)
(* Neural-Image-API: the neural-network core (BaseModel, SequentialModel,  *)
(* ConvolutionalModel, the Input/Dense/Convolutional layers, Matrix, the   *)
(* activations and the losses) as a state machine.                         *)
(*                                                                         *)
(* Numbers are integers.  A matrix is a sequence of rows (number[][]), and *)
(* the empty sequence << >> stands for a field that is null.  Activations  *)
(* are the ones with integer values (Linear, ReLU, and Softmax on rows of  *)
(* width 1, where exp(x - max)/sum is exactly 1); Sigmoid and Tanh need    *)
(* reals and are not built.                                                *)
(***************************************************************************)
EXTENDS Integers, Sequences, FiniteSets, TLC

\* ------------------------------------------------------------------ bounds
MaxLayers  == 2     \* layers a model is built with
MaxSamples == 2     \* samples of one train / evaluate call
MaxEpochs  == 2     \* epochs of one train call
MaxAbs     == 2     \* parameters are kept within -MaxAbs .. MaxAbs
MaxCalls   == 3     \* direct calls made on the layers of a model

Sizes         == {1}          \* inputSize / outputSize of the layers built
RandomWeights == {-1, 1}      \* values Math.random() yields, scaled to [-stdDev, stdDev]
LearningRates == {1}          \* rates given to setOptimizer
InputValues   == {1}          \* features of a sample (normalised to [0,1])
TargetValues  == {0, 1}       \* one-hot target entries
GradientValues == {-1, 1}     \* entries of a gradient handed to backward directly
WideSizes     == {1, 2}       \* sizes given to layers that are built but not run
UserIds(n)    == {<<"id", m>> : m \in 1..n}  \* config.id values given to the n-th addLayer

Null == << >>

\* ------------------------------------------------------------------ Matrix
Rows(M) == Len(M)
Cols(M) == Len(M[1])

NewMatrix(rows, cols) == [i \in 1..rows |-> [j \in 1..cols |-> 0]]

\* Matrix.fromArray: a copy of the array; an empty array, an empty first row
\* or rows of different lengths throw.
FromArrayThrows(A) ==
    \/ Len(A) = 0
    \/ Len(A[1]) = 0
    \/ \E i \in 1..Len(A) : Len(A[i]) # Len(A[1])

FromArray(A) == [i \in 1..Len(A) |-> [j \in 1..Len(A[1]) |-> A[i][j]]]

RECURSIVE DotSum(_, _, _, _, _)
DotSum(A, B, i, j, k) ==
    IF k = 0 THEN 0 ELSE DotSum(A, B, i, j, k - 1) + A[i][k] * B[k][j]

MultiplyThrows(A, B) == Cols(A) # Rows(B)

Multiply(A, B) ==
    [i \in 1..Rows(A) |-> [j \in 1..Cols(B) |-> DotSum(A, B, i, j, Cols(A))]]

ValidateDimensionsThrows(A, B) == Rows(A) # Rows(B) \/ Cols(A) # Cols(B)

Subtract(A, B) ==
    [i \in 1..Rows(A) |-> [j \in 1..Cols(A) |-> A[i][j] - B[i][j]]]

HadamardProduct(A, B) ==
    [i \in 1..Rows(A) |-> [j \in 1..Cols(A) |-> A[i][j] * B[i][j]]]

Transpose(A) ==
    [j \in 1..Cols(A) |-> [i \in 1..Rows(A) |-> A[i][j]]]

MultiplyScalar(A, s) ==
    [i \in 1..Rows(A) |-> [j \in 1..Cols(A) |-> A[i][j] * s]]

\* Matrix.random(rows, cols, min, max): every cell drawn on its own; draw[i][j]
\* is the value drawn for cell (i, j).
RandomDraws == [Sizes -> [Sizes -> RandomWeights]]

Random(rows, cols, draw) == [i \in 1..rows |-> [j \in 1..cols |-> draw[i][j]]]

\* -------------------------------------------------------------- activations
Max2(a, b) == IF a > b THEN a ELSE b

\* Softmax.forwardVector on a row of width 1: exp(x - x) / exp(x - x).
SoftmaxForwardVector(row) == [j \in 1..Len(row) |-> 1]

\* Softmax.backwardVector: val * (1 - val).
SoftmaxBackwardVector(row) == [j \in 1..Len(row) |-> row[j] * (1 - row[j])]

ForwardMatrix(act, M) ==
    CASE act = "linear"  -> [i \in 1..Len(M) |-> [j \in 1..Len(M[i]) |-> M[i][j]]]
      [] act = "relu"    -> [i \in 1..Len(M) |-> [j \in 1..Len(M[i]) |-> Max2(0, M[i][j])]]
      [] act = "softmax" -> [i \in 1..Len(M) |-> SoftmaxForwardVector(M[i])]

BackwardMatrix(act, M) ==
    CASE act = "linear"  -> [i \in 1..Len(M) |-> [j \in 1..Len(M[i]) |-> 1]]
      [] act = "relu"    -> [i \in 1..Len(M) |-> [j \in 1..Len(M[i]) |->
                                IF M[i][j] > 0 THEN 1 ELSE 0]]
      [] act = "softmax" -> [i \in 1..Len(M) |-> SoftmaxBackwardVector(M[i])]

\* ------------------------------------------------------------------ layers
\* A layer object.  weights/biases are DenseLayer.weights/biases or, for a
\* convolutional layer, kernels[0] and biases; input/output are the cached
\* forward pass (DenseLayer.input/output, ConvolutionalLayer.lastInput and
\* lastOutput).  Null is the field's initial null.
NewInputLayer(id, inputShape) ==
    [id |-> id, type |-> "input", activation |-> "none",
     inputSize |-> inputShape, outputSize |-> inputShape,
     weights |-> Null, biases |-> Null, input |-> Null, output |-> Null]

NewDenseLayer(id, inputSize, outputSize, activation) ==
    [id |-> id, type |-> "dense", activation |-> activation,
     inputSize |-> inputSize, outputSize |-> outputSize,
     weights |-> Null, biases |-> Null, input |-> Null, output |-> Null]

\* ConvolutionalLayer.initialize: one kernel per filter, randomised in
\* [-stdDev, stdDev]; biases randomised in [-0.1, 0.1], whose only integer is 0.
\* The layers built here have inputShape [1,1,1], kernelSize [1,1], one filter.
ConvInitialize(L, draw) ==
    [L EXCEPT !.weights = Random(1, 1, draw), !.biases = NewMatrix(1, 1)]

\* The constructor ends with this.initialize().
NewConvolutionalLayer(id, activation, draw) ==
    ConvInitialize(
        [id |-> id, type |-> "convolutional", activation |-> activation,
         inputSize |-> 1, outputSize |-> 1,
         weights |-> Null, biases |-> Null, input |-> Null, output |-> Null],
        draw)

\* An initialize that allocates nothing.
Unallocated(L, draw) == L

\* DenseLayer.initialize: Xavier weights (stdDev = sqrt(2/(in+out)) = 1 for the
\* sizes built), zero biases.
DenseInitialize(L, draw) ==
    [L EXCEPT !.weights = Random(L.inputSize, L.outputSize, draw),
              !.biases  = NewMatrix(1, L.outputSize)]

LayerInitialize(L, draw) ==
    CASE L.type = "input"         -> L
      [] L.type = "dense"         -> DenseInitialize(L, draw)
      [] L.type = "convolutional" -> ConvInitialize(L, draw)

\* The result of a layer call: the layer afterwards, the value returned, and
\* the error thrown ("none" when it returned).
Returned(L, out) == [layer |-> L, out |-> out, err |-> "none"]

\* A throw that leaves the weights in the place of the biases.
ThrownDirty(L, err) ==
    [layer |-> [L EXCEPT !.biases = L.weights], out |-> Null, err |-> err]

Thrown(L, err)   == [layer |-> L, out |-> Null, err |-> err]

AddBiases(P, b) == [i \in 1..Rows(P) |-> [j \in 1..Cols(P) |-> P[i][j] + b[1][j]]]

DenseForward(L, X) ==
    IF L.weights = Null \/ L.biases = Null THEN Thrown(L, "NotInitialized")
    ELSE IF FromArrayThrows(X) THEN Thrown(L, "EmptyArray")
    ELSE IF MultiplyThrows(FromArray(X), L.weights)
         THEN Thrown([L EXCEPT !.input = FromArray(X)], "ShapeMismatch")
    ELSE LET pre == AddBiases(Multiply(FromArray(X), L.weights), L.biases)
             out == ForwardMatrix(L.activation, pre)
         IN  Returned([L EXCEPT !.input = FromArray(X), !.output = out], out)

\* A forward that keeps its input in the layer's biases.
ForwardAdjusting(L, X) == Returned([L EXCEPT !.biases = X], X)

\* forward of a [1,1,1] volume with a 1x1 kernel, stride 1, "valid" padding:
\* one output position whose receptive field is the single input cell.
ConvForward(L, X) ==
    LET pre == [b \in 1..Len(X) |-> << X[b][1] * L.weights[1][1] + L.biases[1][1] >>]
        out == ForwardMatrix(L.activation, pre)
    IN  Returned([L EXCEPT !.input = X, !.output = out], out)

Forward(L, X) ==
    CASE L.type = "input"         -> Returned(L, X)
      [] L.type = "dense"         -> DenseForward(L, X)
      [] L.type = "convolutional" -> ConvForward(L, X)

RECURSIVE ColumnSum(_, _, _)
ColumnSum(G, j, i) == IF i = 0 THEN 0 ELSE ColumnSum(G, j, i - 1) + G[i][j]

\* DenseLayer.backward.  The input gradient is computed after the update, from
\* this.weights as reassigned.
DenseBackward(L, G, lr) ==
    IF L.weights = Null \/ L.biases = Null \/ L.input = Null \/ L.output = Null
    THEN Thrown(L, "StateError")
    ELSE IF ValidateDimensionsThrows(G, L.output) THEN Thrown(L, "ShapeMismatch")
    ELSE LET gradient == HadamardProduct(G, BackwardMatrix(L.activation, L.output))
             weightsGradient == Multiply(Transpose(L.input), gradient)
             biasesGradient  ==
                 [i \in 1..1 |-> [j \in 1..L.outputSize |->
                     ColumnSum(gradient, j, Rows(gradient))]]
             w == Subtract(L.weights, MultiplyScalar(weightsGradient, lr))
             b == Subtract(L.biases, MultiplyScalar(biasesGradient, lr))
         IN  Returned([L EXCEPT !.weights = w, !.biases = b],
                      Multiply(gradient, Transpose(w)))

RECURSIVE BatchSum(_, _)
BatchSum(v, b) == IF b = 0 THEN 0 ELSE BatchSum(v, b - 1) + v[b]

\* ConvolutionalLayer.backward for the same 1x1 geometry.  The kernel and the
\* bias are written in place (kernels[f].set, biases.set); the input gradient
\* is accumulated inside the loop, from the kernel before the update.  The
\* batches passed have one row, so grad / batchSize is exact.
ConvBackward(L, G, lr) ==
    IF L.input = Null \/ L.output = Null THEN Thrown(L, "StateError")
    ELSE LET batchSize == Len(G)
             d   == BackwardMatrix(L.activation, L.output)
             adj == [b \in 1..batchSize |-> d[b][1] * G[b][1]]
             kernelGradient == BatchSum([b \in 1..batchSize |-> adj[b] * L.input[b][1]], batchSize)
             biasGradient   == BatchSum(adj, batchSize)
             inputGradient  == [b \in 1..batchSize |-> << adj[b] * L.weights[1][1] >>]
             k  == L.weights[1][1] - lr * (kernelGradient \div batchSize)
             bi == L.biases[1][1] - lr * (biasGradient \div batchSize)
         IN  Returned([L EXCEPT !.weights = << <<k>> >>, !.biases = << <<bi>> >>],
                      inputGradient)

Backward(L, G, lr) ==
    CASE L.type = "input"         -> Returned(L, G)
      [] L.type = "dense"         -> DenseBackward(L, G, lr)
      [] L.type = "convolutional" -> ConvBackward(L, G, lr)

\* getWeights: the named map of the layer's parameter arrays (the arrays
\* themselves, not copies).  A map is a function from its keys.
GetWeightsThrows(L) == L.type = "dense" /\ (L.weights = Null \/ L.biases = Null)

GetWeights(L) ==
    CASE L.type = "input"         -> [key \in {} |-> Null]
      [] L.type = "dense"         -> [weights |-> L.weights, biases |-> L.biases]
      [] L.type = "convolutional" -> [biases |-> L.biases, kernel_0 |-> L.weights]

Has(map, key) == key \in DOMAIN map

\* DenseLayer.setWeights throws when a key is missing; the second
\* Matrix.fromArray may throw after this.weights was assigned.
DenseSetWeights(L, w) ==
    IF ~Has(w, "weights") \/ ~Has(w, "biases") THEN Thrown(L, "InvalidWeights")
    ELSE IF FromArrayThrows(w.weights) THEN Thrown(L, "EmptyArray")
    ELSE IF FromArrayThrows(w.biases)
         THEN Thrown([L EXCEPT !.weights = FromArray(w.weights)], "EmptyArray")
    ELSE Returned([L EXCEPT !.weights = FromArray(w.weights),
                            !.biases  = FromArray(w.biases)], Null)

\* ConvolutionalLayer.setWeights takes the keys that are present.
ConvSetWeights(L, w) ==
    IF Has(w, "biases") /\ FromArrayThrows(w.biases) THEN Thrown(L, "EmptyArray")
    ELSE LET L1 == IF Has(w, "biases") THEN [L EXCEPT !.biases = FromArray(w.biases)] ELSE L
         IN  IF Has(w, "kernel_0") /\ FromArrayThrows(w.kernel_0) THEN Thrown(L1, "EmptyArray")
             ELSE IF Has(w, "kernel_0")
                  THEN Returned([L1 EXCEPT !.weights = FromArray(w.kernel_0)], Null)
                  ELSE Returned(L1, Null)

SetWeights(L, w) ==
    CASE L.type = "input"         -> Returned(L, Null)
      [] L.type = "dense"         -> DenseSetWeights(L, w)
      [] L.type = "convolutional" -> ConvSetWeights(L, w)

\* The trainable parameters of a layer.
Params(L) == <<L.weights, L.biases>>

\* ------------------------------------------------------------------- losses
\* SequentialModel.calculateMSEGradient / ConvolutionalModel.calculateGradient:
\* 2 * (output - target) / n, n = rows * cols (exact for the 1x1 batches used).
CalculateMSEGradient(out, target) ==
    [r \in 1..Len(out) |-> [c \in 1..Len(out[r]) |->
        (2 * (out[r][c] - target[r][c])) \div (Len(out) * Len(out[r]))]]

\* CrossEntropy.gradient: (predictions - targets) / batch size.
CrossEntropyGradient(predictions, target) ==
    [r \in 1..Len(predictions) |-> [c \in 1..Len(predictions[r]) |->
        (predictions[r][c] - target[r][c]) \div Len(predictions)]]

\* -------------------------------------------------------------------- state
VARIABLES
    kind,                    \* "sequential" | "convolutional": the model's class
    layers,                  \* BaseModel.layers: the layer ids, in order
    layerInstances,          \* BaseModel.layerInstances
    optimizer,               \* BaseModel.optimizer
    isInitialized,           \* BaseModel.isInitialized
    useSoftmaxCrossEntropy,  \* SequentialModel.useSoftmaxCrossEntropy
    snapshot,                \* the object the last save() returned
    call,                    \* the model method running: "none" when idle
    pc,                      \* its position: "idle" | "forward" | "loss" | "backward"
                             \*   | "epochEnd" | "done"
    inputs, targets,         \* train / evaluate arguments (predict: one input)
    epochs, epoch, i, j,     \* train's argument and loop counters (i, j from 1)
    output, gradient,        \* train's locals
    correctPredictions,      \* train's / evaluate's count of correct samples
    accuracyHistory,         \* train's local: one entry per finished epoch
    lossHistory,             \* train's local: one entry per finished epoch
    trace,                   \* history: the layer calls of the current sample (or made directly)
    lossUsed,                \* history: the loss function of the last loss step
    lazy,                    \* history: the running call found the model uninitialized
    initCalls,               \* history: initialize() calls Model.initialize made, per layer
    err,                     \* the error the last method threw, or "none"
    arrays,                  \* the heap of row arrays (number[]), by address
    matrices,                \* the heap of Matrix objects: rows, cols, data (row addresses)
    result,                  \* the Matrix the last operation returned, 0 if none
    thrown,                  \* what the last Matrix / optimizer operation threw
    writes,                  \* history: the number of Matrix.set calls made
    conv,                    \* a ConvolutionalLayer built from a configuration
    convRow,                 \* what its forward returned for a batch of one row
    trainingData,            \* TrainingRepository: the persisted training records
    activeTrainings,         \* TrainingService.activeTrainings
    runs                     \* the runTraining tasks: position, epoch, history

modelVars == <<kind, layers, layerInstances, optimizer, isInitialized,
               useSoftmaxCrossEntropy, snapshot>>
metricVars == <<correctPredictions, accuracyHistory, lossHistory>>
runVars   == <<call, pc, inputs, targets, epochs, epoch, i, j, output, gradient,
               metricVars, trace, lossUsed, lazy>>
heapVars    == <<arrays, matrices, result, thrown, writes>>
convVars    == <<conv, convRow>>
serviceVars == <<trainingData, activeTrainings, runs>>
\* What the model's methods do not touch.
outside   == <<heapVars, convVars, serviceVars>>
vars      == <<modelVars, runVars, initCalls, err, outside>>

NoOptimizer       == [type |-> "none", learningRate |-> 0]
\* new SGDOptimizer(rate); train's default is SGDOptimizer(0.01), modelled as the
\* unit rate so that parameters stay integers.
SGDOptimizer(rate) == [type |-> "sgd", learningRate |-> rate]
DefaultOptimizer  == SGDOptimizer(1)

\* save()'s object: layers and layersData (id and name are fixed, and load
\* does not read the optimizer entry).
\* shares[n] is not part of the value: it tells that the arrays of
\* layersData[n].weights are arrays layer n still holds (getWeights returns
\* matrix.data itself).  A convolutional layer writes into them; a dense layer
\* replaces its matrices on every change.
NoSnapshot == [taken |-> FALSE, layers |-> << >>, layersData |-> << >>,
               shares |-> << >>]

N == Len(layerInstances)

\* No method is running: its arguments and locals are gone.
NoRun ==
    /\ call = "none" /\ pc = "idle"
    /\ inputs = << >> /\ targets = << >>
    /\ epochs = 0 /\ epoch = 0 /\ i = 0 /\ j = 0
    /\ output = Null /\ gradient = Null
    /\ correctPredictions = 0 /\ accuracyHistory = << >> /\ lossHistory = << >>
    /\ trace = << >>
    /\ lossUsed = "none"
    /\ lazy = FALSE

\* No Matrix has been created, no layer built apart, no training started.
NoMatrices ==
    /\ arrays = << >> /\ matrices = << >>
    /\ result = 0 /\ thrown = "none" /\ writes = 0

NoConv == conv = Null /\ convRow = Null

NoTrainings ==
    /\ trainingData = << >> /\ activeTrainings = << >> /\ runs = << >>

Init ==
    /\ kind \in {"sequential", "convolutional"}
    /\ layers = << >>
    /\ layerInstances = << >>
    /\ optimizer = NoOptimizer
    /\ isInitialized = FALSE
    /\ useSoftmaxCrossEntropy = FALSE
    /\ snapshot = NoSnapshot
    /\ NoRun
    /\ initCalls = << >>
    /\ err = "none"
    /\ NoMatrices
    /\ NoConv
    /\ NoTrainings

Idle == call = "none"

\* The running method returns or throws.
Return ==
    /\ call' = "none" /\ pc' = "idle"
    /\ inputs' = << >> /\ targets' = << >>
    /\ epochs' = 0 /\ epoch' = 0 /\ i' = 0 /\ j' = 0
    /\ output' = Null /\ gradient' = Null
    /\ correctPredictions' = 0 /\ accuracyHistory' = << >> /\ lossHistory' = << >>
    /\ trace' = << >>
    /\ lossUsed' = "none"
    /\ lazy' = FALSE

\* ------------------------------------------------------------ building
\* LayerFactory.create(type, config); Pooling and unknown types throw.
\* config carries id, activation and the sizes (inputShape flattened, or
\* inputSize and outputSize).
LayerFactoryCreate(type, config, draw) ==
    CASE type = "input"         -> NewInputLayer(config.id, config.inputSize)
      [] type = "dense"         -> NewDenseLayer(config.id, config.inputSize,
                                                 config.outputSize, config.activation)
      [] type = "convolutional" -> NewConvolutionalLayer(config.id, config.activation, draw)

\* The flag after SequentialModel.addLayer(layerType, config).
AddLayerFlag(flag, type, activation) ==
    IF type = "dense" /\ activation = "softmax" THEN TRUE ELSE flag

DenseActivations == {"linear", "softmax"}

\* The (layerType, config) pairs given to addLayer, with sizes from a set.
ConfigsOf(sizes) ==
    {[type |-> "input", activation |-> "none", inputSize |-> n, outputSize |-> n] :
        n \in sizes}
    \cup [type : {"dense"}, activation : DenseActivations,
          inputSize : sizes, outputSize : sizes]

LayerConfigs == ConfigsOf(Sizes)

WithId(cfg, id) ==
    [id |-> id, activation |-> cfg.activation,
     inputSize |-> cfg.inputSize, outputSize |-> cfg.outputSize]

NoDraw == [r \in Sizes |-> [c \in Sizes |-> 0]]

PushLayer(layer) ==
    /\ layerInstances' = Append(layerInstances, layer)
    /\ layers' = Append(layers, layer.id)
    /\ initCalls' = Append(initCalls, 0)

\* An addLayer after which the model has to be initialized again.
AddLayerInvalidating(cfg, id, draw) ==
    /\ Idle /\ kind = "sequential" /\ N < MaxLayers
    /\ PushLayer(LayerFactoryCreate(cfg.type, WithId(cfg, id), draw))
    /\ useSoftmaxCrossEntropy' =
           AddLayerFlag(useSoftmaxCrossEntropy, cfg.type, cfg.activation)
    /\ isInitialized' = FALSE
    /\ err' = "none"
    /\ UNCHANGED <<kind, optimizer, snapshot, runVars>>
    /\ UNCHANGED outside

\* SequentialModel.addLayer
AddLayer(cfg, id, draw) ==
    /\ Idle /\ kind = "sequential" /\ N < MaxLayers
    /\ PushLayer(LayerFactoryCreate(cfg.type, WithId(cfg, id), draw))
    /\ useSoftmaxCrossEntropy' =
           AddLayerFlag(useSoftmaxCrossEntropy, cfg.type, cfg.activation)
    /\ err' = "none"
    /\ UNCHANGED <<kind, optimizer, isInitialized, snapshot, runVars>>
    /\ UNCHANGED outside

\* ConvolutionalModel.addConvolutionalLayer: id conv_<n>, default activation ReLU
AddConvolutionalLayer(draw) ==
    /\ Idle /\ kind = "convolutional" /\ N < MaxLayers
    /\ PushLayer(LayerFactoryCreate("convolutional",
           [id |-> <<"conv", Len(layers) + 1>>, activation |-> "relu",
            inputSize |-> 1, outputSize |-> 1], draw))
    /\ err' = "none"
    /\ UNCHANGED <<kind, optimizer, isInitialized, useSoftmaxCrossEntropy,
                   snapshot, runVars>>
    /\ UNCHANGED outside

\* ConvolutionalModel.addDenseLayer: id dense_<n>
AddDenseLayer(inputSize, outputSize, activation) ==
    /\ Idle /\ kind = "convolutional" /\ N < MaxLayers
    /\ PushLayer(LayerFactoryCreate("dense",
           [id |-> <<"dense", Len(layers) + 1>>, activation |-> activation,
            inputSize |-> inputSize, outputSize |-> outputSize], NoDraw))
    /\ err' = "none"
    /\ UNCHANGED <<kind, optimizer, isInitialized, useSoftmaxCrossEntropy,
                   snapshot, runVars>>
    /\ UNCHANGED outside

\* A setOptimizer that also clears the loss flag.
SetOptimizerResetsLoss(rate) ==
    /\ Idle
    /\ optimizer' = SGDOptimizer(rate)
    /\ useSoftmaxCrossEntropy' = FALSE
    /\ err' = "none"
    /\ UNCHANGED <<kind, layers, layerInstances, isInitialized, snapshot,
                   runVars, initCalls>>
    /\ UNCHANGED outside

\* setOptimizer
SetOptimizer(rate) ==
    /\ Idle
    /\ optimizer' = SGDOptimizer(rate)
    /\ err' = "none"
    /\ UNCHANGED <<kind, layers, layerInstances, isInitialized,
                   useSoftmaxCrossEntropy, snapshot, runVars, initCalls>>
    /\ UNCHANGED outside

\* -------------------------------------------------------- initialization
\* Arrays a layer replaces are no longer the arrays an earlier snapshot holds.
Unshare(S) ==
    [snapshot EXCEPT !.shares =
        [n \in 1..Len(snapshot.shares) |-> snapshot.shares[n] /\ n \notin S]]

\* What Matrix.random may draw for a layer's weights, and for the layers Ls
\* from the first to the n-th.
DrawsFor(L) ==
    IF L.type = "dense"
    THEN [1..L.inputSize -> [1..L.outputSize -> RandomWeights]]
    ELSE RandomDraws

RECURSIVE DrawSeqs(_, _)
DrawSeqs(Ls, n) ==
    IF n = 0 THEN {<< >>}
    ELSE {Append(ds, d) : ds \in DrawSeqs(Ls, n - 1), d \in DrawsFor(Ls[n])}

\* An initialize() without the isInitialized guard.
ModelInitializeAlways ==
    \E draws \in DrawSeqs(layerInstances, N) :
        /\ layerInstances' =
               [n \in 1..N |-> LayerInitialize(layerInstances[n], draws[n])]
        /\ initCalls' = [n \in 1..N |-> initCalls[n] + 1]
        /\ isInitialized' = TRUE
        /\ snapshot' = Unshare({n \in 1..N : layerInstances[n].type # "input"})

\* BaseModel.initialize(), as called by initialize, predict, train and evaluate.
ModelInitialize ==
    IF isInitialized
    THEN UNCHANGED <<layerInstances, isInitialized, initCalls, snapshot>>
    ELSE \E draws \in DrawSeqs(layerInstances, N) :
            /\ layerInstances' =
                   [n \in 1..N |-> LayerInitialize(layerInstances[n], draws[n])]
            /\ initCalls' = [n \in 1..N |-> initCalls[n] + 1]
            /\ isInitialized' = TRUE
            /\ snapshot' = Unshare({n \in 1..N : layerInstances[n].type # "input"})

Initialize ==
    /\ Idle
    /\ ModelInitialize
    /\ err' = "none"
    /\ UNCHANGED <<kind, layers, optimizer, useSoftmaxCrossEntropy, runVars>>
    /\ UNCHANGED outside

\* ------------------------------------------------------------------ running
\* The loss train and evaluate compute: SequentialModel tests its flag,
\* ConvolutionalModel.calculateLoss / calculateGradient are always MSE.
LossFunction ==
    IF kind = "sequential" /\ useSoftmaxCrossEntropy THEN "ce" ELSE "mse"

LossGradient(out, target) ==
    IF LossFunction = "ce" THEN CrossEntropyGradient(out, target)
                           ELSE CalculateMSEGradient(out, target)

AsMatrix(v) == << <<v>> >>

\* A sample is an input batch and its target batch, each of one row.
Samples == [x : {AsMatrix(v) : v \in InputValues},
            t : {AsMatrix(v) : v \in TargetValues}]

SeqsOf(S) == UNION {[1..n -> S] : n \in 1..MaxSamples}

SampleSeqs == SeqsOf(Samples)

\* Samples of both widths, with one-hot targets of the larger width.
WideSamples == [x : { << <<1>> >>, << <<1, 1>> >> },
                t : { << <<0, 1>> >>, << <<1, 0>> >> }]

\* The entry of a method: lazy initialization, then the first sample's forward loop.
Begin(method, xs, ts, ep) ==
    /\ Idle
    /\ ModelInitialize
    /\ call' = method /\ pc' = IF Len(xs) = 0 THEN "epochEnd" ELSE "forward"
    /\ inputs' = xs /\ targets' = ts
    /\ epochs' = ep /\ epoch' = 0 /\ i' = 1 /\ j' = 1
    /\ output' = (IF Len(xs) = 0 THEN Null ELSE xs[1]) /\ gradient' = Null
    /\ correctPredictions' = 0 /\ accuracyHistory' = << >> /\ lossHistory' = << >>
    /\ trace' = << >>
    /\ lossUsed' = "none"
    /\ lazy' = ~isInitialized
    /\ err' = "none"
    /\ UNCHANGED <<kind, layers, useSoftmaxCrossEntropy>>
    /\ UNCHANGED outside

\* BaseModel.predict(input)
PredictBegin(x) ==
    /\ Begin("predict", <<AsMatrix(x)>>, << >>, 0)
    /\ UNCHANGED optimizer

\* train(inputs, targets, epochs, batchSize): a missing optimizer becomes SGD
TrainBegin(samples, ep) ==
    /\ Begin("train", [n \in 1..Len(samples) |-> samples[n].x],
                      [n \in 1..Len(samples) |-> samples[n].t], ep)
    /\ optimizer' = IF optimizer.type = "none" THEN DefaultOptimizer ELSE optimizer

\* evaluate(inputs, targets)
EvaluateBegin(samples) ==
    /\ Begin("evaluate", [n \in 1..Len(samples) |-> samples[n].x],
                         [n \in 1..Len(samples) |-> samples[n].t], 0)
    /\ UNCHANGED optimizer

\* One iteration of the forward loop: output = layer.forward(output)
ForwardStep ==
    /\ pc = "forward" /\ j <= N
    /\ LET r == Forward(layerInstances[j], output) IN
        /\ layerInstances' = [layerInstances EXCEPT ![j] = r.layer]
        /\ IF r.err = "none"
           THEN /\ output' = r.out /\ j' = j + 1
                /\ trace' = Append(trace, [op |-> "forward", layer |-> j,
                                           arg |-> output, ret |-> r.out])
                /\ UNCHANGED <<call, pc, inputs, targets, epochs, epoch, i,
                               gradient, metricVars, lossUsed, lazy, err>>
           ELSE /\ Return
                /\ err' = r.err
    /\ UNCHANGED <<kind, layers, optimizer, isInitialized, useSoftmaxCrossEntropy,
                   snapshot, initCalls>>
    /\ UNCHANGED outside

\* SequentialModel.isPredictionCorrect's getMaxIndex: the first index (from 1
\* here) of the row's greatest value, found by one pass from the left.
RECURSIVE MaxIndexFrom(_, _, _)
MaxIndexFrom(arr, k, maxIndex) ==
    IF k > Len(arr) THEN maxIndex
    ELSE MaxIndexFrom(arr, k + 1, IF arr[k] > arr[maxIndex] THEN k ELSE maxIndex)

GetMaxIndex(arr) == MaxIndexFrom(arr, 2, 1)

\* isPredictionCorrect(output, target): every row of the batch agrees.
IsPredictionCorrect(out, target) ==
    \A r \in 1..Len(out) : GetMaxIndex(out[r]) = GetMaxIndex(target[r])

\* A count that takes every sample for correct.
CountAll(count, out, target) == count + 1

\* if (this.isPredictionCorrect(output, target)) correctPredictions++
CountCorrect(count, out, target) ==
    IF IsPredictionCorrect(out, target) THEN count + 1 ELSE count

\* predict returns the output of the last layer
PredictEnd ==
    /\ call = "predict" /\ pc = "forward" /\ j > N
    /\ Return
    /\ UNCHANGED <<modelVars, initCalls, err>>
    /\ UNCHANGED outside

\* A train whose backward loop starts at the first layer.
LossStepFromFirst ==
    /\ call = "train" /\ pc = "forward" /\ j > N
    /\ lossUsed' = LossFunction
    /\ gradient' = LossGradient(output, targets[i])
    /\ correctPredictions' = CountCorrect(correctPredictions, output, targets[i])
    /\ pc' = "backward" /\ j' = IF N = 0 THEN 0 ELSE 1
    /\ UNCHANGED <<modelVars, call, inputs, targets, epochs, epoch, i, output,
                   accuracyHistory, lossHistory, trace, lazy, initCalls, err>>
    /\ UNCHANGED outside

\* train, after the forward loop: the loss and its gradient
LossStep ==
    /\ call = "train" /\ pc = "forward" /\ j > N
    /\ lossUsed' = LossFunction
    /\ gradient' = LossGradient(output, targets[i])
    /\ correctPredictions' = CountCorrect(correctPredictions, output, targets[i])
    /\ pc' = "backward" /\ j' = N
    /\ UNCHANGED <<modelVars, call, inputs, targets, epochs, epoch, i, output,
                   accuracyHistory, lossHistory, trace, lazy, initCalls, err>>
    /\ UNCHANGED outside

WithinBounds(L) ==
    \A M \in {L.weights, L.biases} :
        \A r \in 1..Len(M) : \A c \in 1..Len(M[r]) :
            M[r][c] >= -MaxAbs /\ M[r][c] <= MaxAbs

\* The snapshot after layer n's backward made layer n into L: a dense layer
\* holds new arrays, a convolutional layer wrote into the arrays it had.
SnapshotAfterBackward(n, L) ==
    IF n > Len(snapshot.shares) \/ ~snapshot.shares[n] THEN snapshot
    ELSE IF L.type = "convolutional"
         THEN [snapshot EXCEPT !.layersData[n].weights = GetWeights(L)]
         ELSE Unshare({n})

\* One iteration of the backward loop:
\* gradient = layerInstances[j].backward(gradient, optimizer.learningRate)
BackwardStep ==
    /\ pc = "backward" /\ j >= 1
    /\ LET r == Backward(layerInstances[j], gradient, optimizer.learningRate) IN
        /\ WithinBounds(r.layer)
        /\ layerInstances' = [layerInstances EXCEPT ![j] = r.layer]
        /\ snapshot' = IF r.err = "none" /\ r.layer.type # "input"
                       THEN SnapshotAfterBackward(j, r.layer) ELSE snapshot
        /\ IF r.err = "none"
           THEN /\ gradient' = r.out /\ j' = j - 1
                /\ trace' = Append(trace, [op |-> "backward", layer |-> j,
                                           arg |-> gradient, ret |-> r.out])
                /\ UNCHANGED <<call, pc, inputs, targets, epochs, epoch, i,
                               output, metricVars, lossUsed, lazy, err>>
           ELSE /\ Return
                /\ err' = r.err
    /\ UNCHANGED <<kind, layers, optimizer, isInitialized, useSoftmaxCrossEntropy,
                   initCalls>>
    /\ UNCHANGED outside

StartSample(n) ==
    /\ i' = n /\ j' = 1 /\ pc' = "forward"
    /\ output' = inputs[n]
    /\ gradient' = Null
    /\ trace' = << >>
    /\ UNCHANGED <<call, inputs, targets, epochs, lazy>>

\* train, after the backward loop: the next sample, or the end of the epoch
NextSample ==
    /\ call = "train" /\ pc = "backward" /\ j = 0
    /\ IF i < Len(inputs)
       THEN StartSample(i + 1) /\ UNCHANGED <<epoch, lossUsed, metricVars>>
       ELSE /\ pc' = "epochEnd"
            /\ UNCHANGED <<call, inputs, targets, epochs, epoch, i, j, output,
                           gradient, metricVars, trace, lossUsed, lazy>>
    /\ UNCHANGED <<modelVars, initCalls, err>>
    /\ UNCHANGED outside

\* accuracy = correctPredictions / inputs.length, kept as the pair of the two
\* numbers (no samples: 0/0, which is NaN); the epoch is history.
Accuracy(ep, correct, samples) ==
    [epoch |-> ep, correct |-> correct, samples |-> samples]

\* train, after the sample loop: the epoch's metrics are pushed, then the next
\* epoch starts or the loop ends.  The loss values are real numbers (a mean
\* of squares or of logarithms) and are not modelled: an entry of
\* lossHistory records its epoch.
EpochEnd ==
    /\ call = "train" /\ pc = "epochEnd"
    /\ accuracyHistory' = Append(accuracyHistory,
                                 Accuracy(epoch + 1, correctPredictions, Len(inputs)))
    /\ lossHistory' = Append(lossHistory, epoch + 1)
    /\ correctPredictions' = 0
    /\ epoch' = epoch + 1
    /\ IF epoch + 1 < epochs
       THEN IF Len(inputs) > 0
            THEN StartSample(1)
            ELSE UNCHANGED <<call, pc, inputs, targets, epochs, i, j, output,
                             gradient, trace, lazy>>
       ELSE /\ pc' = "done"
            /\ UNCHANGED <<call, inputs, targets, epochs, i, j, output,
                           gradient, trace, lazy>>
    /\ UNCHANGED <<modelVars, lossUsed, initCalls, err>>
    /\ UNCHANGED outside

\* train returns { accuracy: accuracyHistory, loss: lossHistory }
TrainEnd ==
    /\ call = "train" /\ pc = "done"
    /\ Return
    /\ UNCHANGED <<modelVars, initCalls, err>>
    /\ UNCHANGED outside

\* evaluate, after predict(input): the loss of the sample
EvaluateLoss ==
    /\ call = "evaluate" /\ pc = "forward" /\ j > N
    /\ lossUsed' = LossFunction
    /\ correctPredictions' = CountCorrect(correctPredictions, output, targets[i])
    /\ pc' = "loss"
    /\ UNCHANGED <<modelVars, call, inputs, targets, epochs, epoch, i, j, output,
                   gradient, accuracyHistory, lossHistory, trace, lazy, initCalls, err>>
    /\ UNCHANGED outside

\* evaluate, after the loss: the next sample, or return
EvaluateSample ==
    /\ call = "evaluate" /\ pc = "loss"
    /\ IF i < Len(inputs)
       THEN StartSample(i + 1) /\ UNCHANGED <<epoch, lossUsed, metricVars>>
       ELSE Return
    /\ UNCHANGED <<modelVars, initCalls, err>>
    /\ UNCHANGED outside

\* ---------------------------------------------------------------- save/load
LayerData(L) == [id |-> L.id, type |-> L.type, weights |-> GetWeights(L)]

SaveData(Ls) == [n \in 1..Len(Ls) |-> LayerData(Ls[n])]

\* BaseModel.save(): getWeights of an unallocated dense layer throws
Save ==
    /\ Idle
    /\ IF \E n \in 1..N : GetWeightsThrows(layerInstances[n])
       THEN /\ err' = "NotInitialized"
            /\ UNCHANGED snapshot
       ELSE /\ err' = "none"
            /\ snapshot' = [taken |-> TRUE, layers |-> layers,
                            layersData |-> SaveData(layerInstances),
                            shares |-> [n \in 1..N |->
                                layerInstances[n].type # "input"]]
    /\ UNCHANGED <<kind, layers, layerInstances, optimizer, isInitialized,
                   useSoftmaxCrossEntropy, runVars, initCalls>>
    /\ UNCHANGED outside

\* The caller drops the object save() returned.
Discard ==
    /\ Idle /\ snapshot.taken
    /\ snapshot' = NoSnapshot
    /\ UNCHANGED <<kind, layers, layerInstances, optimizer, isInitialized,
                   useSoftmaxCrossEntropy, runVars, initCalls, err>>
    /\ UNCHANGED outside

\* Array.prototype.find: the first entry whose id is the layer's; 0 for undefined
RECURSIVE Find(_, _, _)
Find(data, id, n) ==
    IF n > Len(data) THEN 0
    ELSE IF Has(data[n], "id") /\ data[n].id = id THEN n
    ELSE Find(data, id, n + 1)

\* The loop of BaseModel.load from layer n on: a layer with no entry, or with an
\* entry without weights, is passed over; a setWeights that throws ends the loop.
RECURSIVE LoadLayers(_, _, _)
LoadLayers(Ls, data, n) ==
    IF n > Len(Ls) THEN [layers |-> Ls, err |-> "none"]
    ELSE LET at == Find(data, Ls[n].id, 1) IN
         IF at = 0 \/ ~Has(data[at], "weights") THEN LoadLayers(Ls, data, n + 1)
         ELSE LET r == SetWeights(Ls[n], data[at].weights) IN
              IF r.err # "none"
              THEN [layers |-> [Ls EXCEPT ![n] = r.layer], err |-> r.err]
              ELSE LoadLayers([Ls EXCEPT ![n] = r.layer], data, n + 1)

\* The layers whose setWeights load calls: they hold copies afterwards.
Loaded(data) ==
    {n \in 1..N : LET at == Find(data, layerInstances[n].id, 1) IN
                    at # 0 /\ Has(data[at], "weights")}

\* BaseModel.load(modelData): kind is what modelData.layersData is
\* ("undefined", a non-array "object", or an "array" of entries).
Load(modelData) ==
    /\ Idle
    /\ IF modelData.kind # "array"
       THEN /\ err' = "ValidationError"
            /\ UNCHANGED <<layerInstances, isInitialized, snapshot>>
       ELSE LET r == LoadLayers(layerInstances, modelData.layersData, 1) IN
            /\ layerInstances' = r.layers
            /\ err' = r.err
            /\ isInitialized' = IF r.err = "none" THEN TRUE ELSE isInitialized
            /\ snapshot' = Unshare(Loaded(modelData.layersData))
    /\ UNCHANGED <<kind, layers, optimizer, useSoftmaxCrossEntropy, runVars, initCalls>>
    /\ UNCHANGED outside

\* The payloads load is given: the object the caller holds, or else the save()
\* of a twin model (same layers, initialized on its own), intact or damaged:
\* layersData undefined or not an array, an entry dropped, an entry without
\* weights, a weights map without its biases.
WithoutEntry(data, n) ==
    [m \in 1..(Len(data) - 1) |-> IF m < n THEN data[m] ELSE data[m + 1]]

WithoutWeights(data, n) ==
    [data EXCEPT ![n] = [id |-> data[n].id, type |-> data[n].type]]

WithoutBiases(data, n) ==
    [data EXCEPT ![n].weights =
        [key \in DOMAIN data[n].weights \ {"biases"} |-> data[n].weights[key]]]

Twins ==
    {[n \in 1..N |-> LayerInitialize(layerInstances[n], draws[n])] :
        draws \in DrawSeqs(layerInstances, N)}

PayloadBases ==
    IF snapshot.taken THEN {snapshot.layersData} ELSE {SaveData(T) : T \in Twins}

ArrayPayload(data) == [kind |-> "array", layersData |-> data]

Payloads ==
    UNION {
        {ArrayPayload(data),
         [kind |-> "undefined", layersData |-> << >>],
         [kind |-> "object", layersData |-> << >>]}
        \cup {ArrayPayload(WithoutEntry(data, n)) : n \in 1..Len(data)}
        \cup {ArrayPayload(WithoutWeights(data, n)) : n \in 1..Len(data)}
        \cup {ArrayPayload(WithoutBiases(data, n)) : n \in 1..Len(data)}
        : data \in PayloadBases}

\* ------------------------------------------------------------- direct calls
\* The layers LayerFactory.create returns are objects a caller may use without
\* a model method: layer.initialize(), layer.forward(input) and
\* layer.backward(gradient, learningRate) on layer n.  trace logs the calls.
Called(op, n, arg, r) ==
    /\ layerInstances' = [layerInstances EXCEPT ![n] = r.layer]
    /\ err' = r.err
    /\ trace' = Append(trace, [op |-> op, layer |-> n, arg |-> arg, ret |-> r.out])
    /\ UNCHANGED <<kind, layers, optimizer, isInitialized, useSoftmaxCrossEntropy,
                   snapshot, call, pc, inputs, targets, epochs, epoch, i, j,
                   output, gradient, metricVars, lossUsed, lazy, initCalls>>
    /\ UNCHANGED outside

CallInitialize(n, draw) ==
    /\ Idle /\ Len(trace) < MaxCalls
    /\ Called("initialize", n, Null,
              Returned(LayerInitialize(layerInstances[n], draw), Null))

CallForward(n, X) ==
    /\ Idle /\ Len(trace) < MaxCalls
    /\ Called("forward", n, X, Forward(layerInstances[n], X))

CallBackward(n, G, rate) ==
    /\ Idle /\ Len(trace) < MaxCalls
    /\ WithinBounds(Backward(layerInstances[n], G, rate).layer)
    /\ Called("backward", n, G, Backward(layerInstances[n], G, rate))

\* --------------------------------------------------------------------- Next
\* The caller runs predict, train and evaluate while it holds no saved object.
Free == ~snapshot.taken

Next ==
    \/ \E cfg \in LayerConfigs, id \in UserIds(N + 1) : AddLayer(cfg, id, NoDraw)
    \/ \E draw \in RandomDraws : AddConvolutionalLayer(draw)
    \/ \E activation \in DenseActivations : AddDenseLayer(1, 1, activation)
    \/ \E rate \in LearningRates : SetOptimizer(rate)
    \/ Initialize
    \/ \E x \in InputValues : Free /\ PredictBegin(x)
    \/ \E samples \in SampleSeqs, ep \in 1..MaxEpochs : Free /\ TrainBegin(samples, ep)
    \/ \E samples \in SampleSeqs : Free /\ EvaluateBegin(samples)
    \/ ForwardStep
    \/ PredictEnd
    \/ LossStep
    \/ BackwardStep
    \/ NextSample
    \/ EpochEnd
    \/ TrainEnd
    \/ EvaluateLoss
    \/ EvaluateSample
    \/ Save
    \/ \E modelData \in Payloads : Load(modelData)
    \/ Discard

Spec == Init /\ [][Next]_vars


NextLayer ==
    \/ \E cfg \in LayerConfigs, id \in UserIds(N + 1) : AddLayer(cfg, id, NoDraw)
    \/ \E draw \in RandomDraws : AddConvolutionalLayer(draw)
    \/ \E activation \in DenseActivations : AddDenseLayer(1, 1, activation)
    \/ \E n \in 1..N, draw \in RandomDraws : CallInitialize(n, draw)
    \/ \E n \in 1..N, x \in InputValues : CallForward(n, AsMatrix(x))
    \/ \E n \in 1..N, g \in GradientValues, rate \in LearningRates :
          CallBackward(n, AsMatrix(g), rate)

LayerSpec == Init /\ [][NextLayer]_vars

\* ------------------------------------------------------------------ claims
FinalSoftmax == N > 0 /\ layerInstances[N].activation = "softmax"

\* The forward pass through layers Ls from layer n on.
RECURSIVE ForwardAll(_, _, _)
ForwardAll(Ls, X, n) ==
    IF n > Len(Ls) THEN X ELSE ForwardAll(Ls, Forward(Ls[n], X).out, n + 1)

TrainCallsInOrder ==
    call = "train" =>
        /\ Len(trace) <= 2 * N
        /\ \A k \in 1..Len(trace) :
              IF k <= N
              THEN /\ trace[k].op = "forward" /\ trace[k].layer = k
                   /\ trace[k].arg = (IF k = 1 THEN inputs[i] ELSE trace[k - 1].ret)
              ELSE /\ trace[k].op = "backward" /\ trace[k].layer = 2 * N + 1 - k
                   /\ trace[k].arg = (IF k = N + 1
                                      THEN LossGradient(trace[N].ret, targets[i])
                                      ELSE trace[k - 1].ret)

SampleAfterBackward ==
    (call = "train" /\ call' = "train" /\ pc' = "forward"
                    /\ <<i, epoch>>' # <<i, epoch>>)
        => (Len(trace) = 2 * N /\ trace' = << >>)

\* C1: in train, the calls of a sample are forward on layers 1..N in order,
\* each on what the layer before returned, then backward on layers N..1, the
\* first on the loss gradient and each other on what the backward before it
\* returned; the next sample (or epoch) starts only after all 2N calls.
TrainOrder == []TrainCallsInOrder /\ [][SampleAfterBackward]_vars

\* A train call is past the backward pass of its second sample of a full model.
TrainOrderWitness ==
    /\ call = "train" /\ N = MaxLayers /\ i = 2
    /\ Len(trace) = 2 * N /\ pc = "backward" /\ j = 0
    /\ \E n \in 1..N : layerInstances[n].type = "dense"

NoBackwardInEvaluate ==
    call = "evaluate" =>
        pc # "backward" /\ \A k \in 1..Len(trace) : trace[k].op # "backward"

ParametersKept ==
    (isInitialized /\ {call, call'} \cap {"predict", "evaluate"} # {})
        => /\ Len(layerInstances') = N
           /\ \A n \in 1..N : Params(layerInstances'[n]) = Params(layerInstances[n])

\* C2: no step of predict or evaluate on an initialized model changes the
\* weights, biases or kernels of a layer, and evaluate calls no backward.
PredictEvaluateFrame == []NoBackwardInEvaluate /\ [][ParametersKept]_vars

\* evaluate has run both samples through a trained model.
PredictEvaluateFrameWitness ==
    /\ call = "evaluate" /\ ~lazy /\ i = 2 /\ j > N /\ N = MaxLayers
    /\ \E n \in 1..N : /\ layerInstances[n].type = "dense"
                       /\ layerInstances[n].biases # Null
                       /\ layerInstances[n].biases # NewMatrix(1, 1)

InitializedOnce ==
    \A n \in 1..N : initCalls[n] <= 1 /\ (~isInitialized => initCalls[n] = 0)

\* A step that runs BaseModel.initialize(): initialize itself or a method entry.
Initializing == Initialize \/ (call = "none" /\ call' # "none")

FirstInitializesAll ==
    (~isInitialized /\ Initializing)
        => (isInitialized' /\ \A n \in 1..N : initCalls'[n] = 1)

LaterChangesNothing ==
    (isInitialized /\ Initializing)
        => UNCHANGED <<layerInstances, initCalls, isInitialized>>

\* C3: Model.initialize calls initialize() of every layer once, at the first
\* initialization (by initialize, predict, train or evaluate), and on an
\* initialized model it changes no layer and calls no layer's initialize().
ModelInitializeOnce ==
    []InitializedOnce /\ [][FirstInitializesAll /\ LaterChangesNothing]_vars

\* A later train runs, in its second epoch, on a model initialized before it.
ModelInitializeOnceWitness ==
    /\ call = "train" /\ ~lazy /\ epoch = 1 /\ N = MaxLayers
    /\ isInitialized /\ \A n \in 1..N : initCalls[n] = 1

Running == call # "none" => isInitialized /\ err = "none"

LazilyInitialized ==
    lazy => /\ \A n \in 1..N : ~GetWeightsThrows(layerInstances[n])
            /\ \A k \in 1..Len(trace) :
                  k <= N => trace[k].op = "forward" /\ trace[k].layer = k

\* C4: predict, train and evaluate entered on a model that is not initialized
\* initialize it, every layer is allocated, the forward pass runs through the
\* layers in order, and no step of the call throws.
LazyInitialization ==
    []Running /\ []LazilyInitialized /\ [][lazy => err' = "none"]_vars

\* predict, entered uninitialized, has passed its input through all layers.
LazyInitializationWitness ==
    /\ lazy /\ call = "predict" /\ j > N /\ N = MaxLayers
    /\ Len(trace) = N
    /\ \E n \in 1..N : layerInstances[n].type = "dense"

\* C5: train and evaluate use Cross-Entropy and its gradient exactly when the
\* activation of the final layer is Softmax, and MSE otherwise.
CrossEntropyIffSoftmax ==
    /\ lossUsed # "none" => lossUsed = (IF FinalSoftmax THEN "ce" ELSE "mse")
    /\ (call = "train" /\ pc = "backward" /\ j = N)
          => gradient = (IF FinalSoftmax
                         THEN CrossEntropyGradient(output, targets[i])
                         ELSE CalculateMSEGradient(output, targets[i]))

\* C6: once a model has layers, no call changes the loss function it uses.
LossChoiceImmutable == [][N > 0 => LossFunction' = LossFunction]_vars

\* C6, as the code has it: only a step that adds a layer changes the loss
\* function, and never away from Cross-Entropy.
LossChoiceChangedByAddLayerOnly ==
    [][ /\ Len(layerInstances') = N => LossFunction' = LossFunction
        /\ LossFunction = "ce" => LossFunction' = "ce" ]_vars

\* A Cross-Entropy model after setOptimizer or train, initialization and save.
LossChoiceWitness ==
    /\ LossFunction = "ce" /\ N = MaxLayers
    /\ optimizer.type = "sgd" /\ isInitialized /\ snapshot.taken

NeverForwarded(n) ==
    \A k \in 1..Len(trace) : ~(trace[k].op = "forward" /\ trace[k].layer = n)

\* C7: backward on a layer whose forward was never called throws the state
\* error and leaves the layer's parameters as they were.
BackwardBeforeForwardRaises ==
    [][\A n \in 1..N, g \in GradientValues, rate \in LearningRates :
          (CallBackward(n, AsMatrix(g), rate) /\ NeverForwarded(n))
              => /\ err' = "StateError"
                 /\ Params(layerInstances'[n]) = Params(layerInstances[n])]_vars

\* C8: after a model that was not trained loads what its twin saved, every
\* layer holds the twin's parameters and predicts as the twin does.
SaveLoadRoundTrip ==
    [][\A T \in Twins :
          (Load(ArrayPayload(SaveData(T))) /\ err' = "none")
              => /\ \A n \in 1..N :
                       GetWeights(layerInstances'[n]) = GetWeights(T[n])
                 /\ \A x \in InputValues :
                       ForwardAll(layerInstances', AsMatrix(x), 1)
                           = ForwardAll(T, AsMatrix(x), 1)]_vars

\* C9: load throws when layersData is not an array; a load that throws leaves
\* every layer and the Initialized flag as they were; a load that returns
\* marks the model Initialized.
LoadFailsClean ==
    [][\A modelData \in Payloads :
          Load(modelData)
              => /\ modelData.kind # "array" => err' = "ValidationError"
                 /\ err' # "none" => UNCHANGED <<layerInstances, isInitialized>>
                 /\ err' = "none" => isInitialized']_vars

\* layersData has an entry with weights for every layer of the model.
Covered(data) ==
    \A n \in 1..N :
        LET at == Find(data, layerInstances[n].id, 1) IN
        at # 0 /\ Has(data[at], "weights")

\* C10: load of a layersData without a usable entry for every layer throws.
LoadNeverSkips ==
    [][\A modelData \in Payloads :
          (Load(modelData) /\ modelData.kind = "array"
                           /\ ~Covered(modelData.layersData))
              => err' # "none"]_vars

\* Building alone, with layers of several sizes.
NextBuild ==
    \/ \E cfg \in ConfigsOf(WideSizes), id \in UserIds(N + 1) : AddLayer(cfg, id, NoDraw)
    \/ \E draw \in RandomDraws : AddConvolutionalLayer(draw)
    \/ \E inputSize \in WideSizes, outputSize \in WideSizes,
          activation \in DenseActivations :
          AddDenseLayer(inputSize, outputSize, activation)

BuildSpec == Init /\ [][NextBuild]_vars

\* C11: the output size of every layer is the input size of the layer after it.
ShapesCompatible ==
    \A n \in 1..(N - 1) :
        layerInstances[n].outputSize = layerInstances[n + 1].inputSize

InitializeCalled(n) ==
    \/ layerInstances[n].type = "convolutional"      \* by its constructor
    \/ \E k \in 1..Len(trace) : trace[k].op = "initialize" /\ trace[k].layer = n

\* C12: initialize() on a layer whose initialize() was called before leaves
\* the layer's parameters as they are.
LayerInitializeIdempotent ==
    [][\A n \in 1..N, draw \in RandomDraws :
          (CallInitialize(n, draw) /\ InitializeCalled(n))
              => Params(layerInstances'[n]) = Params(layerInstances[n])]_vars

\* Training a Sequential model of linear dense layers of several sizes on
\* samples of several widths.
TrainConfigs ==
    {cfg \in ConfigsOf(WideSizes) : cfg.type = "dense" /\ cfg.activation = "linear"}

NextTrain ==
    \/ \E cfg \in TrainConfigs : AddLayer(cfg, <<"id", N + 1>>, NoDraw)
    \/ Initialize
    \/ \E samples \in SeqsOf(WideSamples) \cup {<< >>}, ep \in 1..MaxEpochs :
          TrainBegin(samples, ep)
    \/ ForwardStep
    \/ LossStep
    \/ BackwardStep
    \/ NextSample
    \/ EpochEnd
    \/ TrainEnd

TrainSpec == Init /\ [][NextTrain]_vars

ArgMax(arr) ==
    CHOOSE k \in 1..Len(arr) :
        /\ \A m \in 1..Len(arr) : arr[m] <= arr[k]
        /\ \A m \in 1..(k - 1) : arr[m] < arr[k]

ArgMaxMatches(out, target) ==
    \A r \in 1..Len(out) : ArgMax(out[r]) = ArgMax(target[r])

\* What train returns has one entry per epoch, in epoch order.
HistoryPerEpoch ==
    (call = "train" /\ pc = "done")
        => /\ Len(accuracyHistory) = epochs /\ Len(lossHistory) = epochs
           /\ \A k \in 1..epochs : accuracyHistory[k].epoch = k /\ lossHistory[k] = k

\* The count of an epoch rises by one at each sample whose output arg-max is
\* the target's, starts at zero, and is pushed over the number of samples.
CountsMatches ==
    /\ (call = "train" /\ pc = "forward" /\ pc' = "backward")
          => correctPredictions' = correctPredictions
                 + (IF ArgMaxMatches(output, targets[i]) THEN 1 ELSE 0)
    /\ (call = "train" /\ pc = "epochEnd")
          => /\ accuracyHistory'[epoch + 1].correct = correctPredictions
             /\ accuracyHistory'[epoch + 1].samples = Len(inputs)
             /\ correctPredictions' = 0
    /\ (call = "train" /\ call' = "train" /\ pc # "epochEnd"
                       /\ ~(pc = "forward" /\ pc' = "backward"))
          => correctPredictions' = correctPredictions
    /\ (call = "none" /\ call' = "train") => correctPredictions' = 0

\* correct / samples is a number between 0 and 1.
InUnit(entry) ==
    entry.samples > 0 /\ 0 <= entry.correct /\ entry.correct <= entry.samples

\* C14, as stated: train returns one accuracy and one loss entry per epoch,
\* in epoch order, and every accuracy entry is the number of samples of the
\* epoch whose output arg-max matched the target's over the number of
\* samples, a number between 0 and 1.
TrainHistory ==
    /\ [](HistoryPerEpoch
          /\ ((call = "train" /\ pc = "done")
                 => \A k \in 1..Len(accuracyHistory) : InUnit(accuracyHistory[k])))
    /\ [][CountsMatches]_vars

\* C14, amended: the same, the entries being between 0 and 1 when train was
\* given at least one sample (with none, every entry is 0/0).
TrainHistoryOfSamples ==
    /\ [](HistoryPerEpoch
          /\ ((call = "train" /\ pc = "done" /\ Len(inputs) > 0)
                 => \A k \in 1..Len(accuracyHistory) : InUnit(accuracyHistory[k])))
    /\ [][CountsMatches]_vars

\* train is about to return two epochs' entries, one of an epoch in which no
\* sample was correct and one of an epoch in which every sample was.
TrainHistoryWitness ==
    /\ call = "train" /\ pc = "done" /\ Len(accuracyHistory) = 2
    /\ \E k \in 1..2 : accuracyHistory[k].correct = 0
    /\ \E k \in 1..2 : accuracyHistory[k].correct = Len(inputs)

\* ------------------------------------------------------- Matrix objects
MaxMatrices == 4
MaxWrites   == 1

\* The shapes and the entries of the two matrices given at the start, the
\* scalars, the callbacks of map, the value and the indices set() is given.
MatrixShapes  == {<<1, 1>>, <<1, 2>>, <<2, 1>>}
MatrixValues  == {-1, 1}
Scalars       == {2}
Callbacks     == {"negate", "plusRow"}
WrittenValues == {0}
Indices       == {0, 1}
Rates         == {1, 2}

MatricesOf(shape) == [1..shape[1] -> [1..shape[2] -> MatrixValues]]

Operands == UNION {MatricesOf(shape) : shape \in MatrixShapes}

\* What w - learningRate * undefined is; no arithmetic of the model reaches it.
NaN == -1000

\* An add that counts the argument twice.
AddTwice(A, B) ==
    [r \in 1..Rows(A) |-> [c \in 1..Cols(A) |-> A[r][c] + 2 * B[r][c]]]

Add(A, B) ==
    [r \in 1..Rows(A) |-> [c \in 1..Cols(A) |-> A[r][c] + B[r][c]]]

AddScalar(A, scalar) ==
    [r \in 1..Rows(A) |-> [c \in 1..Cols(A) |-> A[r][c] + scalar]]

\* callback(value, row, col), rows counted from 0
Callback(f, value, row, col) ==
    IF f = "negate" THEN 0 - value ELSE value + row

Map(A, f) ==
    [r \in 1..Rows(A) |-> [c \in 1..Cols(A) |-> Callback(f, A[r][c], r - 1, c - 1)]]

Clone(A) == [r \in 1..Rows(A) |-> [c \in 1..Cols(A) |-> A[r][c]]]

\* SGDOptimizer.updateWeights: a missing row of gradients throws when an
\* entry of it is read, a missing entry of a row is undefined; what
\* gradients holds beyond the shape of weights is never read.
UpdateWeightsThrows(W, G) ==
    \E r \in 1..Len(W) : r > Len(G) /\ Len(W[r]) > 0

UpdatedWeights(W, G, learningRate) ==
    [r \in 1..Len(W) |-> [c \in 1..Len(W[r]) |->
        IF c > Len(G[r]) THEN NaN ELSE W[r][c] - learningRate * G[r][c]]]

\* this.data of Matrix m, row by row
Value(m) == [r \in 1..Len(matrices[m].data) |-> arrays[matrices[m].data[r]]]

\* Rows that are those of the receiver.
RowsOfFirst(rows) ==
    [r \in 1..rows |-> matrices[1].data[((r - 1) % Len(matrices[1].data)) + 1]]

\* new Matrix(rows, cols): the addresses of its rows, arrays made by the call
Allocated(rows) == [r \in 1..rows |-> Len(arrays) + r]

\* The heap after the rows at the addresses data[r] were filled with M[r].
Store(data, M) ==
    [k \in 1..(IF \E r \in 1..Len(M) : data[r] > Len(arrays)
               THEN Len(arrays) + Len(M) ELSE Len(arrays)) |->
        IF \E r \in 1..Len(M) : data[r] = k
        THEN M[CHOOSE r \in 1..Len(M) : data[r] = k]
        ELSE arrays[k]]

\* A throw that has made and returned a Matrix all the same.
MatrixThrowWithResult(label) ==
    /\ arrays' = Append(arrays, <<0>>)
    /\ matrices' = Append(matrices, [rows |-> 1, cols |-> 1,
                                     data |-> <<Len(arrays) + 1>>,
                                     from |-> <<"throw">>])
    /\ result' = Len(matrices) + 1
    /\ thrown' = label

\* The operation throws: nothing is returned, nothing was written.
MatrixThrow(label) ==
    /\ result' = 0
    /\ thrown' = label
    /\ UNCHANGED <<arrays, matrices>>

\* The operation returns a Matrix it made, filled with M; from is history:
\* the operation and its operands.
MatrixReturn(M, from) ==
    LET data == Allocated(Len(M)) IN
    /\ arrays' = Store(data, M)
    /\ matrices' = Append(matrices, [rows |-> Len(M), cols |-> Len(M[1]),
                                     data |-> data, from |-> from])
    /\ result' = Len(matrices) + 1
    /\ thrown' = "none"

notHeap == <<modelVars, runVars, initCalls, err, convVars, serviceVars>>

\* A call on Matrix x (with Matrix y): both are Matrix objects.
Callable(x, y) ==
    /\ Len(matrices) < MaxMatrices
    /\ x \in 1..Len(matrices) /\ y \in 1..Len(matrices)
    /\ matrices[x].from[1] # "updateWeights"
    /\ matrices[y].from[1] # "updateWeights"

MatrixAdd(x, y) ==
    /\ Callable(x, y)
    /\ IF ValidateDimensionsThrows(Value(x), Value(y))
       THEN MatrixThrow("ShapeMismatch")
       ELSE MatrixReturn(Add(Value(x), Value(y)), <<"add", x, y>>)
    /\ UNCHANGED <<writes, notHeap>>

MatrixSubtract(x, y) ==
    /\ Callable(x, y)
    /\ IF ValidateDimensionsThrows(Value(x), Value(y))
       THEN MatrixThrow("ShapeMismatch")
       ELSE MatrixReturn(Subtract(Value(x), Value(y)), <<"subtract", x, y>>)
    /\ UNCHANGED <<writes, notHeap>>

MatrixMultiply(x, y) ==
    /\ Callable(x, y)
    /\ IF MultiplyThrows(Value(x), Value(y))
       THEN MatrixThrow("ShapeMismatch")
       ELSE MatrixReturn(Multiply(Value(x), Value(y)), <<"multiply", x, y>>)
    /\ UNCHANGED <<writes, notHeap>>

MatrixHadamardProduct(x, y) ==
    /\ Callable(x, y)
    /\ IF ValidateDimensionsThrows(Value(x), Value(y))
       THEN MatrixThrow("ShapeMismatch")
       ELSE MatrixReturn(HadamardProduct(Value(x), Value(y)), <<"hadamardProduct", x, y>>)
    /\ UNCHANGED <<writes, notHeap>>

MatrixTranspose(x) ==
    /\ Callable(x, x)
    /\ MatrixReturn(Transpose(Value(x)), <<"transpose", x>>)
    /\ UNCHANGED <<writes, notHeap>>

MatrixMultiplyScalar(x, scalar) ==
    /\ Callable(x, x)
    /\ MatrixReturn(MultiplyScalar(Value(x), scalar), <<"multiplyScalar", x>>)
    /\ UNCHANGED <<writes, notHeap>>

MatrixAddScalar(x, scalar) ==
    /\ Callable(x, x)
    /\ MatrixReturn(AddScalar(Value(x), scalar), <<"addScalar", x>>)
    /\ UNCHANGED <<writes, notHeap>>

MatrixMap(x, f) ==
    /\ Callable(x, x)
    /\ MatrixReturn(Map(Value(x), f), <<"map", x>>)
    /\ UNCHANGED <<writes, notHeap>>

MatrixClone(x) ==
    /\ Callable(x, x)
    /\ MatrixReturn(Clone(Value(x)), <<"clone", x>>)
    /\ UNCHANGED <<writes, notHeap>>

\* Matrix.set(row, col, value) on the Matrix (or the array) returned last;
\* row and col count from 0.
MatrixSet(row, col, value) ==
    /\ result # 0 /\ writes < MaxWrites
    /\ writes' = writes + 1
    /\ IF row < 0 \/ row >= matrices[result].rows \/ col < 0 \/ col >= matrices[result].cols
       THEN /\ thrown' = "IndexOutOfRange"
            /\ UNCHANGED arrays
       ELSE /\ thrown' = "none"
            /\ arrays' = [arrays EXCEPT ![matrices[result].data[row + 1]][col + 1] = value]
    /\ UNCHANGED <<matrices, result, notHeap>>

\* new SGDOptimizer(learningRate).updateWeights(weights, gradients) on the
\* data of Matrix x and of Matrix y; what it returns is an array of arrays.
UpdateWeights(x, y, learningRate) ==
    /\ Callable(x, y)
    /\ IF UpdateWeightsThrows(Value(x), Value(y))
       THEN MatrixThrow("TypeError")
       ELSE MatrixReturn(UpdatedWeights(Value(x), Value(y), learningRate),
                         <<"updateWeights", x, y, learningRate>>)
    /\ UNCHANGED <<writes, notHeap>>

\* Two matrices exist at the start, each with rows of its own.
MatrixInit ==
    /\ kind = "sequential"
    /\ layers = << >> /\ layerInstances = << >>
    /\ optimizer = NoOptimizer
    /\ isInitialized = FALSE /\ useSoftmaxCrossEntropy = FALSE
    /\ snapshot = NoSnapshot
    /\ NoRun
    /\ initCalls = << >> /\ err = "none"
    /\ NoConv /\ NoTrainings
    /\ \E A \in Operands, B \in Operands :
          /\ arrays = A \o B
          /\ matrices = << [rows |-> Rows(A), cols |-> Cols(A),
                            data |-> [r \in 1..Rows(A) |-> r], from |-> <<"new">>],
                           [rows |-> Rows(B), cols |-> Cols(B),
                            data |-> [r \in 1..Rows(B) |-> Rows(A) + r],
                            from |-> <<"new">>] >>
    /\ result = 0 /\ thrown = "none" /\ writes = 0

\* The receiver of a call: the first Matrix or the Matrix returned last.
Receivers == {1} \cup (IF result = 0 THEN {} ELSE {result})

NextMatrix ==
    \/ \E x \in Receivers, y \in 1..2 : MatrixAdd(x, y)
    \/ \E x \in Receivers, y \in 1..2 : MatrixSubtract(x, y)
    \/ \E x \in Receivers, y \in 1..2 : MatrixMultiply(x, y)
    \/ \E x \in Receivers, y \in 1..2 : MatrixHadamardProduct(x, y)
    \/ \E x \in Receivers : MatrixTranspose(x)
    \/ \E x \in Receivers, scalar \in Scalars : MatrixMultiplyScalar(x, scalar)
    \/ \E x \in Receivers, scalar \in Scalars : MatrixAddScalar(x, scalar)
    \/ \E x \in Receivers, f \in Callbacks : MatrixMap(x, f)
    \/ \E x \in Receivers : MatrixClone(x)
    \/ \E row \in Indices, col \in Indices, value \in WrittenValues :
          MatrixSet(row, col, value)
    \/ \E x \in Receivers, y \in 1..2, learningRate \in Rates :
          UpdateWeights(x, y, learningRate)

MatrixSpec == MatrixInit /\ [][NextMatrix]_vars

Shape(m) == <<matrices[m].rows, matrices[m].cols>>

\* The call threw a shape error, returned nothing and wrote nothing.
FailsOnShape ==
    /\ thrown' = "ShapeMismatch" /\ result' = 0
    /\ matrices' = matrices /\ arrays' = arrays

\* C15: multiply throws a shape error whenever the receiver's cols differ
\* from the argument's rows, and add, subtract and hadamardProduct whenever
\* the two shapes differ; the failing call returns no Matrix and leaves
\* both operands as they were.
ShapeMismatchRaises ==
    [][\A x \in 1..MaxMatrices, y \in 1..2 :
          /\ ((MatrixAdd(x, y) \/ MatrixSubtract(x, y) \/ MatrixHadamardProduct(x, y))
                 /\ Shape(x) # Shape(y)) => FailsOnShape
          /\ (MatrixMultiply(x, y) /\ matrices[x].cols # matrices[y].rows)
                 => FailsOnShape]_vars

\* A call on a Matrix returned by an earlier call has failed on the shapes.
ShapeMismatchWitness ==
    thrown = "ShapeMismatch" /\ result = 0 /\ Len(matrices) = 3

\* One of the operations that return a Matrix is called on x (with y).
Operation(x, y) ==
    \/ MatrixAdd(x, y) \/ MatrixSubtract(x, y)
    \/ MatrixMultiply(x, y) \/ MatrixHadamardProduct(x, y)
    \/ MatrixTranspose(x) \/ MatrixClone(x)
    \/ \E scalar \in Scalars : MatrixMultiplyScalar(x, scalar) \/ MatrixAddScalar(x, scalar)
    \/ \E f \in Callbacks : MatrixMap(x, f)

\* Every Matrix that existed holds what it held.
OthersKept(written) ==
    \A m \in 1..Len(matrices) :
        m # written => (matrices'[m] = matrices[m] /\ Value(m)' = Value(m))

\* C16: add, subtract, multiply, hadamardProduct, transpose, multiplyScalar,
\* addScalar, map and clone return a Matrix that did not exist, made of rows
\* no other Matrix holds, and leave every existing Matrix unchanged; set()
\* on the returned Matrix changes no other Matrix.
OperationsPure ==
    [][/\ \A x \in 1..MaxMatrices, y \in 1..2 :
             (Operation(x, y) /\ thrown' = "none")
                 => /\ result' = Len(matrices) + 1
                    /\ Len(matrices') = Len(matrices) + 1
                    /\ OthersKept(0)
                    /\ \A r \in 1..Len(matrices'[result'].data) :
                          matrices'[result'].data[r] > Len(arrays)
       /\ \A row \in Indices, col \in Indices, value \in WrittenValues :
             MatrixSet(row, col, value) => OthersKept(result)]_vars

\* A clone of the first Matrix was written to and differs from it.
OperationsPureWitness ==
    /\ result # 0 /\ writes = 1 /\ thrown = "none"
    /\ matrices[result].from = <<"clone", 1>>
    /\ Value(result) # Value(1)

\* C17: for matrices A and B of one shape, A.add(B).subtract(B) holds the
\* entries of A.
AddSubtractRoundTrip ==
    [][\A x \in 1..MaxMatrices, y \in 1..2 :
          (/\ MatrixSubtract(x, y) /\ thrown' = "none"
           /\ writes = 0
           /\ matrices[x].from[1] = "add" /\ matrices[x].from[3] = y)
              => Value(result)' = Value(matrices[x].from[2])]_vars

\* The first Matrix was added to the second and the second subtracted from
\* the sum.
AddSubtractWitness ==
    /\ Len(matrices) = 4 /\ result = 4 /\ writes = 0
    /\ matrices[3].from = <<"add", 1, 2>>
    /\ matrices[4].from = <<"subtract", 3, 2>>

\* The call returned a new array that holds w - learningRate * g at every
\* position, and wrote to no array that existed.
ReturnsUpdated(x, y, learningRate) ==
    /\ thrown' = "none" /\ result' = Len(matrices) + 1
    /\ \A r \in 1..matrices[x].rows : \A c \in 1..matrices[x].cols :
          Value(result)'[r][c] = Value(x)[r][c] - learningRate * Value(y)[r][c]
    /\ \A r \in 1..Len(matrices'[result'].data) :
          matrices'[result'].data[r] > Len(arrays)
    /\ OthersKept(0)

\* C19: updateWeights(weights, gradients) returns a new array holding
\* weights[i][j] - learningRate * gradients[i][j] at every position and
\* leaves both arguments unchanged; given arguments of different shapes it
\* returns no result.
UpdateWeightsElementwise ==
    [][\A x \in 1..MaxMatrices, y \in 1..2, learningRate \in Rates :
          UpdateWeights(x, y, learningRate)
              => IF Shape(x) = Shape(y)
                 THEN ReturnsUpdated(x, y, learningRate)
                 ELSE result' = 0 /\ OthersKept(0)]_vars

\* ------------------------------------------- ConvolutionalLayer shapes
MaxInput  == 3
MaxKernel == 3
MaxStride == 2

\* config: inputShape [height, width, channels], kernelSize, strides,
\* padding, filters.
ConvConfigs ==
    [inputShape : (1..MaxInput) \X (1..2) \X {1},
     kernelSize : (1..MaxKernel) \X (1..2),
     strides    : (1..MaxStride) \X (1..MaxStride),
     padding    : {"valid", "same"},
     filters    : {1, 2}]

\* Math.ceil(a / b) for a >= 0 and b > 0
Ceil(a, b) == (a + b - 1) \div b

\* The constructor's outputHeight / outputWidth (Math.floor is \div).
OutputSize(in, kernel, stride, padding) ==
    IF padding = "valid" THEN ((in - kernel) \div stride) + 1
    ELSE Ceil(in, stride)

\* new ConvolutionalLayer(id, config)
NewConv(config) ==
    /\ conv' = [inputShape   |-> config.inputShape,
                kernelSize   |-> config.kernelSize,
                strides      |-> config.strides,
                padding      |-> config.padding,
                filters      |-> config.filters,
                outputHeight |-> OutputSize(config.inputShape[1], config.kernelSize[1],
                                            config.strides[1], config.padding),
                outputWidth  |-> OutputSize(config.inputShape[2], config.kernelSize[2],
                                            config.strides[2], config.padding)]
    /\ convRow' = Null
    /\ UNCHANGED <<modelVars, runVars, initCalls, err, heapVars, serviceVars>>

\* convolve's output: Array(outputHeight) of Array(outputWidth) of
\* Array(filters); the values are not modelled.
Volume(height, width, channels) ==
    [y \in 1..height |-> [x \in 1..width |-> [f \in 1..channels |-> 0]]]

RECURSIVE Flatten(_, _)
Flatten(seqs, n) == IF n = 0 THEN << >> ELSE Flatten(seqs, n - 1) \o seqs[n]

\* volumeToMatrix: one row of every value, in height, width, channel order
VolumeToMatrix(volume) ==
    << Flatten([y \in 1..Len(volume) |-> Flatten(volume[y], Len(volume[y]))],
               Len(volume)) >>

\* Math.floor((kernelSize - 1) / 2) zeros on each side for "same" padding
PadSize(cv, d) == IF cv.padding = "same" THEN (cv.kernelSize[d] - 1) \div 2 ELSE 0

\* applyPadding: the height (d = 1) and width (d = 2) of the volume that
\* convolve and backward read
PaddedSize(cv, d) == cv.inputShape[d] + 2 * PadSize(cv, d)

Unverified(inputY, inputX, height, width) == TRUE

\* "Verificar limites": the test before a volume is indexed
WithinLimits(inputY, inputX, height, width) ==
    inputY >= 0 /\ inputY < height /\ inputX >= 0 /\ inputX < width

\* The loops over filter, output position and kernel offset (the single
\* channel is index 0), with the input position each one addresses.
KernelPositions(cv) ==
    { [f |-> f, y |-> y, x |-> x, ky |-> ky, kx |-> kx,
       inputY |-> y * cv.strides[1] + ky, inputX |-> x * cv.strides[2] + kx] :
         f \in 0..(cv.filters - 1),
         y \in 0..(cv.outputHeight - 1), x \in 0..(cv.outputWidth - 1),
         ky \in 0..(cv.kernelSize[1] - 1), kx \in 0..(cv.kernelSize[2] - 1) }

\* The products kernelValue * inputValue that convolve accumulates, each one
\* reading input[inputY][inputX][c] of the padded volume.
ConvolveReads(cv) ==
    { t \in KernelPositions(cv) :
        WithinLimits(t.inputY, t.inputX, PaddedSize(cv, 1), PaddedSize(cv, 2)) }

\* backward: the positions whose paddedInput[inputY][inputX][c] is read for
\* the kernel gradient
KernelGradientReads(cv) ==
    { t \in KernelPositions(cv) :
        WithinLimits(t.inputY, t.inputX, PaddedSize(cv, 1), PaddedSize(cv, 2)) }

\* backward: the additions gradValue * kernelValue into
\* inputGradientVolume[adjustedY][adjustedX][c].  The test "inside the original
\* input" is made on inputY and inputX, before the padding is subtracted.
InputGradientWrites(cv) ==
    LET Adjusted(t) == [t |-> t, adjustedY |-> t.inputY - PadSize(cv, 1),
                                 adjustedX |-> t.inputX - PadSize(cv, 2)]
    IN  { w \in { Adjusted(t) : t \in
                    { t \in KernelGradientReads(cv) :
                        \/ cv.padding = "valid"
                        \/ WithinLimits(t.inputY, t.inputX,
                                        cv.inputShape[1], cv.inputShape[2]) } } :
            WithinLimits(w.adjustedY, w.adjustedX, cv.inputShape[1], cv.inputShape[2]) }

\* The returned input gradient: at every input position the sum of the
\* products added there, kept as the set of its terms.
InputGradientVolume(cv) ==
    [p \in (0..(cv.inputShape[1] - 1)) \X (0..(cv.inputShape[2] - 1)) |->
        { w.t : w \in { w \in InputGradientWrites(cv) :
                          w.adjustedY = p[1] /\ w.adjustedX = p[2] } }]

\* forward of a batch of one row: Array(n) throws a RangeError for n < 0,
\* volumeToMatrix a TypeError reading volume[0].length or
\* volume[0][0].length of an empty volume.
ConvForwardRow ==
    /\ conv # Null /\ convRow = Null
    /\ convRow' =
          IF conv.outputHeight < 0 \/ (conv.outputHeight > 0 /\ conv.outputWidth < 0)
          THEN [err |-> "RangeError", row |-> << >>, reads |-> {}]
          ELSE IF conv.outputHeight = 0 \/ conv.outputWidth = 0
          THEN [err |-> "TypeError", row |-> << >>, reads |-> {}]
          ELSE [err |-> "none",
                row |-> VolumeToMatrix(Volume(conv.outputHeight, conv.outputWidth,
                                              conv.filters))[1],
                reads |-> ConvolveReads(conv)]
    /\ UNCHANGED <<conv, modelVars, runVars, initCalls, err, heapVars, serviceVars>>

\* backward of a batch of one row after forward: it throws unless forward
\* stored lastOutput, that is unless forward returned.
ConvBackwardRow ==
    /\ conv # Null /\ convRow # Null /\ "back" \notin DOMAIN convRow
    /\ convRow' =
          [err |-> convRow.err, row |-> convRow.row, reads |-> convRow.reads,
           back |-> IF convRow.err # "none"
                    THEN [err |-> "StateError", reads |-> {}, writes |-> {},
                          inputGradient |-> << >>]
                    ELSE [err |-> "none",
                          reads  |-> KernelGradientReads(conv),
                          writes |-> InputGradientWrites(conv),
                          inputGradient |-> InputGradientVolume(conv)]]
    /\ UNCHANGED <<conv, modelVars, runVars, initCalls, err, heapVars, serviceVars>>

NextConv ==
    \/ \E config \in ConvConfigs : NewConv(config)
    \/ ConvForwardRow
    \/ ConvBackwardRow

ConvSpec == Init /\ [][NextConv]_vars

\* floor((in - kernel) / stride) + 1: the integer q with
\* (q - 1) * stride <= in - kernel < q * stride.
IsValidSize(q, in, kernel, stride) ==
    (q - 1) * stride <= in - kernel /\ in - kernel < q * stride

\* ceil(in / stride): the integer q with (q - 1) * stride < in <= q * stride.
IsSameSize(q, in, stride) ==
    (q - 1) * stride < in /\ in <= q * stride

IsOutputSize(q, d) ==
    IF conv.padding = "valid"
    THEN IsValidSize(q, conv.inputShape[d], conv.kernelSize[d], conv.strides[d])
    ELSE IsSameSize(q, conv.inputShape[d], conv.strides[d])

\* The layer's output height and width are floor((in - kernel) / stride) + 1
\* for "valid" padding and ceil(in / stride) for "same" padding.
ConvOutputSizes ==
    conv # Null => IsOutputSize(conv.outputHeight, 1) /\ IsOutputSize(conv.outputWidth, 2)

\* C18: a ConvolutionalLayer's output height and width are
\* floor((in - kernel) / stride) + 1 for "valid" padding and ceil(in / stride)
\* for "same" padding, and forward returns rows of exactly
\* outputHeight * outputWidth * filters values.
ConvOutputShape ==
    /\ ConvOutputSizes
    /\ (conv # Null /\ convRow # Null)
          => /\ convRow.err = "none"
             /\ Len(convRow.row) = conv.outputHeight * conv.outputWidth * conv.filters

\* ------------------------------------------------------ TrainingService
MaxTrainings == 2

notService == <<modelVars, runVars, initCalls, err, heapVars, convVars>>

Status(status, progress) == [status |-> status, progress |-> progress]

\* Math.round(((epoch + 1) / epochs) * 100), epoch counted from 0
Progress(ep, eps) == (200 * (ep + 1) + eps) \div (2 * eps)

\* startTraining(options): the record is created as "pending", the training
\* registered in memory, runTraining called without await (it runs up to its
\* first await) and the id returned.  A createTraining that throws starts
\* nothing.
StartTraining(eps) ==
    /\ Len(runs) < MaxTrainings
    /\ trainingData' = Append(trainingData, Status("pending", 0))
    /\ activeTrainings' = Append(activeTrainings, Status("pending", 0))
    /\ runs' = Append(runs, [pc |-> "start", epoch |-> 0, epochs |-> eps,
                             threw |-> FALSE, caller |-> "returned"])
    /\ UNCHANGED notService

\* Task id resumes after an awaited call: the call threw (control is at the
\* catch), or it resolved and the task ran up to its next await at pc next.
\* A resolved updateTrainingStatus has written the record, and the
\* activeTrainings.set after it writes the same status in memory.
Resume(id, ok, next, catch, written) ==
    /\ runs' = [runs EXCEPT ![id].pc = IF ok THEN next ELSE catch,
                            ![id].threw = IF ok THEN @ ELSE TRUE]
    /\ trainingData' = IF ok /\ written # Null
                       THEN [trainingData EXCEPT ![id] = written] ELSE trainingData
    /\ activeTrainings' = IF ok /\ written # Null
                          THEN [activeTrainings EXCEPT ![id] = written]
                          ELSE activeTrainings
    /\ UNCHANGED notService

\* await updateTrainingStatus(trainingId, "in_progress", 0)
UpdateInProgress(id, ok) ==
    /\ runs[id].pc = "start"
    /\ Resume(id, ok, "epoch", "outerCatch", Status("in_progress", 0))

\* await updateTrainingStatus(trainingId, "in_progress", progress)
UpdateProgress(id, ok) ==
    /\ runs[id].pc = "epoch"
    /\ Resume(id, ok, "wait", "innerCatch",
              Status("in_progress", Progress(runs[id].epoch, runs[id].epochs)))

\* await new Promise(resolve => setTimeout(resolve, 500)); epoch++
Wait(id) ==
    /\ runs[id].pc = "wait"
    /\ runs' = [runs EXCEPT ![id].epoch = @ + 1,
                            ![id].pc = IF runs[id].epoch + 1 < runs[id].epochs
                                       THEN "epoch" ELSE "complete"]
    /\ UNCHANGED <<trainingData, activeTrainings, notService>>

\* await updateTrainingStatus(trainingId, "completed", 100)
UpdateCompleted(id, ok) ==
    /\ runs[id].pc = "complete"
    /\ Resume(id, ok, "saveModel", "innerCatch", Status("completed", 100))

\* await modelRepository.saveModel({... layers: model.save().layersData ...})
SaveModel(id, ok) ==
    /\ runs[id].pc = "saveModel"
    /\ Resume(id, ok, "associate", "innerCatch", Null)

\* await associateModelToTraining(trainingId, modelData._id.toString())
AssociateModel(id, ok) ==
    /\ runs[id].pc = "associate"
    /\ Resume(id, ok, "done", "innerCatch", Null)

\* The inner catch: await updateTrainingStatus(trainingId, "failed", 0); a
\* throw inside it is caught by the outer try.
InnerCatch(id, ok) ==
    /\ runs[id].pc = "innerCatch"
    /\ Resume(id, ok, "done", "outerCatch", Status("failed", 0))

\* The outer catch: await updateTrainingStatus(trainingId, "failed", 0); a
\* throw inside it rejects the promise of runTraining, which nobody awaits.
OuterCatch(id, ok) ==
    /\ runs[id].pc = "outerCatch"
    /\ Resume(id, ok, "done", "rejected", Status("failed", 0))

\* getTrainingStatus(trainingId): the entry in memory, else the record
GetTrainingStatus(id) ==
    IF id \in 1..Len(activeTrainings) THEN activeTrainings[id] ELSE trainingData[id]

NextService ==
    \/ \E eps \in 1..MaxEpochs : StartTraining(eps)
    \/ \E id \in 1..Len(runs), ok \in BOOLEAN : UpdateInProgress(id, ok)
    \/ \E id \in 1..Len(runs), ok \in BOOLEAN : UpdateProgress(id, ok)
    \/ \E id \in 1..Len(runs) : Wait(id)
    \/ \E id \in 1..Len(runs), ok \in BOOLEAN : UpdateCompleted(id, ok)
    \/ \E id \in 1..Len(runs), ok \in BOOLEAN : SaveModel(id, ok)
    \/ \E id \in 1..Len(runs), ok \in BOOLEAN : AssociateModel(id, ok)
    \/ \E id \in 1..Len(runs), ok \in BOOLEAN : InnerCatch(id, ok)
    \/ \E id \in 1..Len(runs), ok \in BOOLEAN : OuterCatch(id, ok)

ServiceSpec == Init /\ [][NextService]_vars

\* C20: a training run of which a step threw ends with the persisted record
\* and the status getTrainingStatus reports both "failed", the caller of
\* startTraining having been returned the training id.
FailedRunEndsFailed ==
    \A id \in 1..Len(runs) :
        (runs[id].threw /\ runs[id].pc \in {"done", "rejected"})
            => /\ trainingData[id].status = "failed"
               /\ GetTrainingStatus(id).status = "failed"
               /\ runs[id].caller = "returned"

\* The incoming gradient after the activation-derivative product.
AfterDerivative(L, G) == HadamardProduct(G, BackwardMatrix(L.activation, L.output))

\* C21: backward on a dense layer returns gradient x weights^T with the
\* weights the layer held before the call, gradient being the incoming
\* gradient after the activation-derivative product.
BackwardUsesPreUpdateWeights ==
    [][\A n \in 1..N, g \in GradientValues, rate \in LearningRates :
          (/\ CallBackward(n, AsMatrix(g), rate)
           /\ layerInstances[n].type = "dense" /\ err' = "none")
              => trace'[Len(trace')].ret =
                     Multiply(AfterDerivative(layerInstances[n], AsMatrix(g)),
                              Transpose(layerInstances[n].weights))]_vars

\* The parameters of dense layer L after a step of rate lr along the
\* parameter gradients of G: input^T x G for the weights, the column sums of
\* G for the biases.
SteppedAlong(L, G, lr) ==
    << Subtract(L.weights, MultiplyScalar(Multiply(Transpose(L.input), G), lr)),
       Subtract(L.biases,
                MultiplyScalar(<< [c \in 1..Cols(G) |-> ColumnSum(G, c, Rows(G))] >>, lr)) >>

\* C22: in a train that uses Cross-Entropy on a model whose output layer is
\* a Softmax dense layer, the output layer's parameter gradients are those of
\* the gradient (prediction - target) / batchSize of the loss, with no
\* further product by the Softmax derivative.
SoftmaxDerivativeUnused ==
    [][(/\ call = "train" /\ pc = "backward" /\ j = N /\ j' = N - 1
        /\ lossUsed = "ce" /\ FinalSoftmax
        /\ layerInstances[N].type = "dense")
           => Params(layerInstances'[N]) =
                  SteppedAlong(layerInstances[N], gradient, optimizer.learningRate)]_vars

\* ------------------------------------ ConvolutionalLayer receptive fields
InsidePadded(t) ==
    /\ t.inputY \in 0..(PaddedSize(conv, 1) - 1)
    /\ t.inputX \in 0..(PaddedSize(conv, 2) - 1)

\* Every volume index used is inside the volume, and the products summed are
\* those of the kernel positions inside the padded input and no others.
ReadsInside(reads) ==
    /\ \A t \in reads : InsidePadded(t)
    /\ \A t \in KernelPositions(conv) : ~InsidePadded(t) => t \notin reads

Covering(y, x) ==
    { t \in KernelPositions(conv) :
        t.inputY - PadSize(conv, 1) = y /\ t.inputX - PadSize(conv, 2) = x }

\* C24: the input gradient returned by backward holds, at every unpadded
\* input position, the sum of gradient * kernelWeight over every filter,
\* output position and kernel offset whose receptive field covers it, for
\* "valid" and for "same" padding.
ConvInputGradientComplete ==
    (conv # Null /\ convRow # Null /\ "back" \in DOMAIN convRow
        /\ convRow.back.err = "none")
        => \A y \in 0..(conv.inputShape[1] - 1), x \in 0..(conv.inputShape[2] - 1) :
              convRow.back.inputGradient[<<y, x>>] = Covering(y, x)

\* ---------------------------------------------------------- model lifecycle
\* The calls that run BaseModel.initialize(), and a load that returns.
RunsInitialize ==
    \/ Initialize
    \/ \E x \in InputValues : PredictBegin(x)
    \/ \E samples \in SampleSeqs, ep \in 1..MaxEpochs : TrainBegin(samples, ep)
    \/ \E samples \in SampleSeqs : EvaluateBegin(samples)
    \/ \E modelData \in Payloads : Load(modelData) /\ err' = "none"

\* C25: a model starts uninitialized, becomes initialized only by initialize,
\* predict, train, evaluate or a load that succeeds, and once initialized is
\* never uninitialized again.
LifecycleForward ==
    /\ ~isInitialized
    /\ [][/\ isInitialized => isInitialized'
          /\ (~isInitialized /\ isInitialized') => RunsInitialize]_vars

\* An initialized model to which a layer was added afterwards, and whose last
\* call, a load, has thrown.
LifecycleForwardWitness ==
    /\ isInitialized /\ N = MaxLayers /\ initCalls[N] = 0
    /\ err = "ValidationError"

\* C26: whenever the model is marked initialized, every layer has its
\* parameters allocated, so that forward on any layer does not fail with
\* "Layer not initialized", whatever addLayer, initialize, load, predict,
\* train and evaluate calls came before.
InitializedLayersAllocated ==
    isInitialized
        => \A n \in 1..N, x \in InputValues :
              Forward(layerInstances[n], AsMatrix(x)).err # "NotInitialized"

\* -------------------------------------------------------- snapshot aliasing
SnapshotValues == {0}

\* The caller writes into the object save() returned:
\* data.layersData[n - 1].weights.biases[0][0] = value.  The array is the
\* layer's own as long as the layer has not replaced its matrix.
WriteSnapshot(n, value) ==
    /\ Idle /\ snapshot.taken
    /\ n \in 1..Len(snapshot.layersData) /\ n <= N
    /\ Has(snapshot.layersData[n].weights, "biases")
    /\ snapshot.layersData[n].weights.biases[1][1] # value
    /\ snapshot' = [snapshot EXCEPT !.layersData[n].weights.biases[1][1] = value]
    /\ layerInstances' =
          IF snapshot.shares[n]
          THEN [layerInstances EXCEPT ![n].biases[1][1] = value]
          ELSE layerInstances
    /\ UNCHANGED <<kind, layers, optimizer, isInitialized, useSoftmaxCrossEntropy,
                   runVars, initCalls, err>>
    /\ UNCHANGED outside

\* Models that are trained, loaded and saved while an earlier save() object is
\* still held.
NextSnapshot ==
    \/ \E cfg \in LayerConfigs : AddLayer(cfg, <<"id", N + 1>>, NoDraw)
    \/ \E draw \in RandomDraws : AddConvolutionalLayer(draw)
    \/ AddDenseLayer(1, 1, "linear")
    \/ Save
    \/ \E samples \in SampleSeqs : TrainBegin(samples, 1)
    \/ ForwardStep
    \/ LossStep
    \/ BackwardStep
    \/ NextSample
    \/ EpochEnd
    \/ TrainEnd
    \/ \E modelData \in Payloads : Load(modelData)
    \/ \E n \in 1..N, value \in SnapshotValues : WriteSnapshot(n, value)

SnapshotSpec == Init /\ [][NextSnapshot]_vars

\* C27: the object save() returned is a stable value: no later train, load or
\* setWeights of the model changes the weight arrays inside it, for dense and
\* convolutional layers, and writing into it does not change the model's
\* parameters.
SnapshotStable ==
    [][snapshot.taken
          => /\ (\E n \in 1..N, value \in SnapshotValues : WriteSnapshot(n, value))
                    => layerInstances' = layerInstances
             /\ ~(\/ Save
                  \/ \E n \in 1..N, value \in SnapshotValues : WriteSnapshot(n, value))
                    => snapshot'.layersData = snapshot.layersData]_vars

\* C28: after any sequence of layer additions the id list and the layer
\* instances stay in step (same length, layers[n] the id of the n-th
\* instance) and no two layers of the model have the same id.
LayerIdsUnique ==
    /\ Len(layers) = Len(layerInstances)
    /\ \A n \in 1..N : layers[n] = layerInstances[n].id
    /\ \A m, n \in 1..N : m # n => layers[m] # layers[n]

\* ------------------------------------------------------- training statuses
StatusRank(status) ==
    CASE status = "pending"     -> 0
      [] status = "in_progress" -> 1
      [] status \in {"completed", "failed"} -> 2

\* One change of a training's status entry: never backwards, never out of
\* "completed" or "failed", and progress never lower while "in_progress".
MovesForward(old, new) ==
    /\ StatusRank(old.status) <= StatusRank(new.status)
    /\ old.status \in {"completed", "failed"} => new = old
    /\ (old.status = "in_progress" /\ new.status = "in_progress")
          => old.progress <= new.progress

\* C29: a training's status only moves pending -> in_progress ->
\* (completed | failed); once the in-memory or the persisted status is
\* "completed" or "failed" it never changes again, and while it is
\* "in_progress" the progress never decreases and stays within 0..100.
StatusOnlyForward ==
    /\ [](\A id \in 1..Len(runs) :
            \A entry \in {trainingData[id], activeTrainings[id]} :
                entry.status = "in_progress" => entry.progress \in 0..100)
    /\ [][\A id \in 1..Len(runs) :
            /\ MovesForward(trainingData[id], trainingData'[id])
            /\ MovesForward(activeTrainings[id], activeTrainings'[id])]_vars

\* ------------------------------------------------- training runs terminate
\* The next step of runTraining(id): the awaited repository call returns or
\* throws, or the timer fires.
RunStep(id) ==
    /\ id \in 1..Len(runs)
    /\ \/ \E ok \in BOOLEAN :
             \/ UpdateInProgress(id, ok) \/ UpdateProgress(id, ok)
             \/ UpdateCompleted(id, ok) \/ SaveModel(id, ok)
             \/ AssociateModel(id, ok) \/ InnerCatch(id, ok) \/ OuterCatch(id, ok)
       \/ Wait(id)

\* Every awaited call of every run settles, and the event loop then resumes
\* the run.
FairServiceSpec ==
    ServiceSpec /\ \A id \in 1..MaxTrainings : WF_vars(RunStep(id))

\* C30: every training started by startTraining eventually has the status
\* "completed" or "failed" in activeTrainings, whichever repository calls
\* fail, given that every repository call returns or throws.
EveryTrainingEnds ==
    \A id \in 1..MaxTrainings :
        (id <= Len(runs))
            ~> (id <= Len(runs) /\ activeTrainings[id].status \in {"completed", "failed"})
====
